---- MODULE Spec2Model ----
(***************************************************************************)
(* A model of src/topic_modeling.py: the NMFCluster object, its fitting    *)
(* operations (fit_tfidf, fit_nmf), its query operations                   *)
(* (top_words_by_topic, topic_attribution_by_document,                     *)
(* topic_word_frequency) and the visualisation driver.                     *)
(*                                                                         *)
(* Conventions.                                                            *)
(*  - numpy arrays are sequences, so positions are 1-based here: topic t   *)
(*    of the model is topic index t-1 of the code, likewise documents and  *)
(*    vocabulary columns.                                                  *)
(*  - Matrix weights are natural numbers (a fixed unit of weight); a       *)
(*    quotient of two weights is kept exactly, as a reduced fraction       *)
(*    [num, den]. IEEE division by zero is kept too: 0/0 is NaN            *)
(*    (num = 0, den = 0) and x/0, x > 0, is +inf (num = 1, den = 0).       *)
(*  - TfidfVectorizer, NMF, WordCloud and matplotlib are libraries the     *)
(*    code calls; what they return is an input of the action that calls    *)
(*    them, constrained only by the shapes their contracts fix.            *)
(***************************************************************************)
EXTENDS Integers, Sequences, FiniteSets

VARIABLES
    attrs,                \* names of the attributes set so far on the object
    pro_or_con,           \* self.pro_or_con
    num_topics,           \* self.num_topics
    tfidf_max_features,   \* self.tfidf_max_features
    tfidf_max_df,         \* self.tfidf_max_df
    tfidf_min_df,         \* self.tfidf_min_df
    tfidf,                \* self.tfidf: the arguments the vectorizer was built with
    tfidf_matrix,         \* self.tfidf_matrix
    tfidf_features,       \* self.tfidf_features
    tfidf_reverse_lookup, \* self.tfidf_reverse_lookup
    nmf,                  \* self.nmf: n_components and components_
    W_matrix,             \* self.W_matrix
    W_pct,                \* self.W_pct
    labels,               \* self.labels
    last_df,              \* the table most recently passed to a fitting operation
    solver_call,          \* the most recent call of the factorization solver
    ret,                  \* the most recent query operation and what it returned
    out                   \* what the most recent visualize_topics printed and rendered

vars == <<attrs, pro_or_con, num_topics, tfidf_max_features, tfidf_max_df,
          tfidf_min_df, tfidf, tfidf_matrix, tfidf_features,
          tfidf_reverse_lookup, nmf, W_matrix, W_pct, labels, last_df,
          solver_call, ret, out>>

cfgVars == <<pro_or_con, num_topics, tfidf_max_features, tfidf_max_df, tfidf_min_df>>
tfidfVars == <<tfidf, tfidf_matrix, tfidf_features, tfidf_reverse_lookup>>
nmfVars == <<nmf, W_matrix, W_pct, labels>>

(***************************************************************************)
(* Bounds of the model.                                                    *)
(***************************************************************************)
MaxDocs == 2
MaxVocab == 2
MaxTopics == 2
LabelTopics == 2
MaxWeight == 4
TopicVocab == 3
MaxTermWeight == 2
MaxTopWords == 4

(***************************************************************************)
(* Numbers.                                                                *)
(***************************************************************************)
RECURSIVE GCD(_, _)
GCD(a, b) == IF b = 0 THEN a ELSE GCD(b, a % b)

\* a / b for weights a, b >= 0, as numpy divides float64 values
Div(a, b) ==
    IF b = 0
    THEN [num |-> IF a = 0 THEN 0 ELSE 1, den |-> 0]
    ELSE [num |-> a \div GCD(a, b), den |-> b \div GCD(a, b)]

IsNaN(x) == x.num = 0 /\ x.den = 0

\* x >= y on float64 values: false as soon as one side is NaN
GE(x, y) == ~IsNaN(x) /\ ~IsNaN(y) /\ x.num * y.den >= y.num * x.den

GT(x, y) == ~IsNaN(x) /\ ~IsNaN(y) /\ x.num * y.den > y.num * x.den

\* x + y on float64 values
Add(x, y) ==
    IF IsNaN(x) \/ IsNaN(y) THEN Div(0, 0)
    ELSE IF x.den = 0 \/ y.den = 0 THEN Div(1, 0)
    ELSE Div(x.num * y.den + y.num * x.den, x.den * y.den)

RECURSIVE SumSeq(_)
SumSeq(s) == IF s = <<>> THEN 0 ELSE Head(s) + SumSeq(Tail(s))

RECURSIVE SumFrac(_)
SumFrac(s) == IF s = <<>> THEN Div(0, 1) ELSE Add(Head(s), SumFrac(Tail(s)))

\* Python numbers of the configuration: an int, or a float n/d
PyInt(n) == [type |-> "int", n |-> n, d |-> 1]
PyFloat(n, d) == [type |-> "float", n |-> n, d |-> d]

(***************************************************************************)
(* Sequences and matrices.                                                 *)
(***************************************************************************)
Range(s) == {s[i] : i \in DOMAIN s}

Reverse(s) == [i \in 1..Len(s) |-> s[Len(s) + 1 - i]]

Min(a, b) == IF a <= b THEN a ELSE b
Max(a, b) == IF a >= b THEN a ELSE b

Matrices(rows, cols, values) == [1..rows -> [1..cols -> values]]

Fill(rows, cols, v) == [i \in 1..rows |-> [j \in 1..cols |-> v]]

NumRows(m) == Len(m)
NumCols(m) == IF m = <<>> THEN 0 ELSE Len(m[1])
IsMatrix(m, rows, cols) ==
    /\ Len(m) = rows
    /\ \A i \in 1..rows : Len(m[i]) = cols

\* the terms a corpus can contribute, in the order get_feature_names gives them
Terms == <<"benefit", "culture", "flexible", "growth", "manager", "pay", "team", "work">>

Unset == <<>>

(***************************************************************************)
(* Construction.                                                           *)
(***************************************************************************)
NoVectorizer == [max_features |-> PyInt(0), max_df |-> PyInt(0), min_df |-> PyInt(0)]
NoModel == [n_components |-> 0, components_ |-> Unset]
NoSolverCall == [invoked |-> FALSE, n_components |-> 0, rows |-> 0, cols |-> 0]
NoReturn == [op |-> "none"]

\* NMFCluster(pro_or_con, num_topics, tfidf_max_features, tfidf_max_df, tfidf_min_df)
Construct(poc, k, maxFeatures, maxDf, minDf) ==
    /\ pro_or_con = poc
    /\ num_topics = k
    /\ tfidf_max_features = maxFeatures
    /\ tfidf_max_df = maxDf
    /\ tfidf_min_df = minDf
    /\ attrs = {}
    /\ tfidf = NoVectorizer
    /\ tfidf_matrix = Unset
    /\ tfidf_features = Unset
    /\ tfidf_reverse_lookup = Unset
    /\ nmf = NoModel
    /\ W_matrix = Unset
    /\ W_pct = Unset
    /\ labels = Unset
    /\ last_df = Unset
    /\ solver_call = NoSolverCall
    /\ ret = NoReturn
    /\ out = Unset

(***************************************************************************)
(* The libraries' contracts.                                               *)
(***************************************************************************)
VectorizerRaised == [raised |-> TRUE, features |-> Unset, matrix |-> Unset]
SolverRaised == [raised |-> TRUE, W |-> Unset, H |-> Unset]

\* TfidfVectorizer(...).fit_transform(df['lemmatized_text']).toarray() and
\* get_feature_names(): it raises (no term survives the pruning), or returns a
\* vocabulary of at most max_features terms and one row per document
VectorizerContract(df, params, vec) ==
    IF vec.raised
    THEN vec = VectorizerRaised
    ELSE /\ Len(vec.features) \in 1..Min(params.max_features.n, Len(Terms))
         /\ vec.features = SubSeq(Terms, 1, Len(vec.features))
         /\ IsMatrix(vec.matrix, Len(df), Len(vec.features))

\* the topic counts the factorization is defined for
FeasibleTopics(k, X) == k >= 1 /\ k <= NumRows(X) /\ k <= NumCols(X)

\* NMF(n_components=k, ...).fit(X) and .transform(X): the solver rejects a
\* non-positive k; for k beyond the shape of X it raises or returns factors
\* as the library version decides; otherwise it returns non-negative factors
SolverContract(k, X, sol) ==
    IF sol.raised
    THEN sol = SolverRaised /\ ~FeasibleTopics(k, X)
    ELSE /\ k >= 1
         /\ IsMatrix(sol.W, NumRows(X), k)
         /\ IsMatrix(sol.H, k, NumCols(X))

(***************************************************************************)
(* The labeling stage (fit_nmf, lines 42-44).                              *)
(***************************************************************************)
Threshold == Div(20, 100)

\* W_matrix / sums[:, None] with sums = W_matrix.sum(axis=1)
Proportions(W) ==
    [d \in 1..Len(W) |-> [t \in 1..Len(W[d]) |-> Div(W[d][t], SumSeq(W[d]))]]

\* W_pct > 0.20: the threshold taken as exclusive
MemberStrict(p) == GT(p, Threshold)

\* W_pct >= 0.20, elementwise
Member(p) == GE(p, Threshold)

Labels(P) == [d \in 1..Len(P) |-> [t \in 1..Len(P[d]) |-> Member(P[d][t])]]

(***************************************************************************)
(* fit_tfidf and fit_nmf.                                                  *)
(***************************************************************************)
\* the arguments fit_tfidf builds the vectorizer with
VectorizerArgs ==
    [max_features |-> tfidf_max_features,
     max_df |-> tfidf_max_features,
     min_df |-> tfidf_min_df]

ReverseLookup(features) ==
    [w \in Range(features) |-> CHOOSE i \in 1..Len(features) : features[i] = w]

TfidfAttrs(vec) ==
    IF vec.raised THEN {"tfidf"}
    ELSE {"tfidf", "tfidf_matrix", "tfidf_features", "tfidf_reverse_lookup"}

NmfAttrs == {"nmf", "W_matrix", "W_pct", "labels"}

\* the body of fit_tfidf: vec is what the vectorizer does on df
TfidfUpdate(df, vec) ==
    /\ VectorizerContract(df, VectorizerArgs, vec)
    /\ last_df' = df
    /\ tfidf' = VectorizerArgs
    /\ IF vec.raised
       THEN UNCHANGED <<tfidf_matrix, tfidf_features, tfidf_reverse_lookup>>
       ELSE /\ tfidf_matrix' = vec.matrix
            /\ tfidf_features' = vec.features
            /\ tfidf_reverse_lookup' = ReverseLookup(vec.features)

fit_tfidf(df, vec) ==
    /\ TfidfUpdate(df, vec)
    /\ attrs' = attrs \cup TfidfAttrs(vec)
    /\ UNCHANGED <<cfgVars, nmfVars, solver_call, ret, out>>

\* the matrix the object held before this call: fit_nmf factorizing without
\* having refitted the vectorizer on df first
StaleSolverInput == tfidf_matrix

\* the matrix fit_nmf hands to the solver: the one fit_tfidf has just set
SolverInput == tfidf_matrix'

\* fit_nmf: vec is what the vectorizer does on df, sol what the solver does
\* on the matrix it is handed. When the vectorizer raises the solver is not
\* called (sol is then SolverRaised, unused); when the solver raises, self.nmf
\* and what follows it are not assigned
fit_nmf(df, vec, sol) ==
    /\ TfidfUpdate(df, vec)
    /\ UNCHANGED <<cfgVars, ret, out>>
    /\ IF vec.raised
       THEN /\ sol = SolverRaised
            /\ attrs' = attrs \cup TfidfAttrs(vec)
            /\ UNCHANGED <<nmfVars, solver_call>>
       ELSE /\ SolverContract(num_topics, SolverInput, sol)
            /\ solver_call' = [invoked |-> TRUE, n_components |-> num_topics,
                               rows |-> NumRows(SolverInput),
                               cols |-> NumCols(SolverInput)]
            /\ IF sol.raised
               THEN /\ attrs' = attrs \cup TfidfAttrs(vec)
                    /\ UNCHANGED nmfVars
               ELSE /\ attrs' = attrs \cup TfidfAttrs(vec) \cup NmfAttrs
                    /\ nmf' = [n_components |-> num_topics, components_ |-> sol.H]
                    /\ W_matrix' = sol.W
                    /\ W_pct' = Proportions(sol.W)
                    /\ labels' = Labels(Proportions(sol.W))

(***************************************************************************)
(* The query operations.                                                   *)
(***************************************************************************)
Permutations(n) == {p \in [1..n -> 1..n] : \A i, j \in 1..n : p[i] = p[j] => i = j}

\* np.argsort(s) of a row of weights: numpy's default sort is not stable, so
\* every ascending order of the positions is a result it may give
ArgSorts(s) ==
    {p \in Permutations(Len(s)) :
        \A i, j \in 1..Len(s) : i < j => s[p[i]] <= s[p[j]]}

\* np.argsort(s) of proportions (none of them NaN), likewise
ArgSortsFrac(s) ==
    {p \in Permutations(Len(s)) :
        \A i, j \in 1..Len(s) : i < j => GE(s[p[j]], s[p[i]])}

\* s[-n:], as Python slices: the start -n counts from the end when negative
\* and is position 0 when n = 0
LastSlice(s, n) ==
    LET start == IF -n < 0 THEN Max(Len(s) - n, 0) ELSE Min(-n, Len(s))
    IN  SubSeq(s, start + 1, Len(s))

\* np.argsort(row)[-n_top_words:][::-1], for the ascending order p of row
TopIdx(p, n) == Reverse(LastSlice(p, n))

Take(s, idx) == [i \in 1..Len(idx) |-> s[idx[i]]]

Fitted == NmfAttrs \subseteq attrs

\* top_words_by_topic(n_top_words, topic), topic given
top_words_by_topic(n, topic, p) ==
    /\ Fitted
    /\ topic \in 1..Len(nmf.components_)
    /\ p \in ArgSorts(nmf.components_[topic])
    /\ Range(p) \subseteq DOMAIN tfidf_features
    /\ ret' = [op |-> "top_words_by_topic", n |-> n, topic |-> topic,
               value |-> Take(tfidf_features, TopIdx(p, n))]
    /\ UNCHANGED <<attrs, cfgVars, tfidfVars, nmfVars, last_df, solver_call, out>>

\* top_words_by_topic(n_top_words), topic=None: one array per topic
top_words_all(n, ps) ==
    /\ Fitted
    /\ Len(ps) = Len(nmf.components_)
    /\ \A t \in 1..Len(ps) :
          /\ ps[t] \in ArgSorts(nmf.components_[t])
          /\ Range(ps[t]) \subseteq DOMAIN tfidf_features
    /\ ret' = [op |-> "top_words_all", n |-> n,
               value |-> [t \in 1..Len(ps) |-> Take(tfidf_features, TopIdx(ps[t], n))]]
    /\ UNCHANGED <<attrs, cfgVars, tfidfVars, nmfVars, last_df, solver_call, out>>

\* np.where(row == 1)[0]: the positions of the true entries, ascending
RECURSIVE WhereFrom(_, _)
WhereFrom(row, t) ==
    IF t > Len(row) THEN <<>>
    ELSE (IF row[t] THEN <<t>> ELSE <<>>) \o WhereFrom(row, t + 1)

Where(row) == WhereFrom(row, 1)

\* the ascending order p kept as it is, the [::-1] left out
AttributionOrderAscending(p) == p

\* idxs[np.argsort(W_pct[d, idxs])[::-1]], for the ascending order p
AttributionOrder(p) == Reverse(p)

\* topic_attribution_by_document(document_idx)
topic_attribution_by_document(d, p) ==
    /\ Fitted
    /\ d \in 1..Len(labels)
    /\ LET idxs == Where(labels[d])
           pcts == Take(W_pct[d], idxs)
       IN  /\ p \in ArgSortsFrac(pcts)
           /\ LET sorted == Take(idxs, AttributionOrder(p))
              IN  ret' = [op |-> "topic_attribution_by_document", document_idx |-> d,
                          value |-> [i \in 1..Len(sorted) |->
                                        [idx |-> sorted[i], pct |-> W_pct[d][sorted[i]]]]]
    /\ UNCHANGED <<attrs, cfgVars, tfidfVars, nmfVars, last_df, solver_call, out>>

\* zip(a, b): as long as the shorter one
Zip(a, b) == [i \in 1..Min(Len(a), Len(b)) |-> <<a[i], b[i]>>]

\* the value topic_word_frequency(topic_idx) returns
WordFrequency(topic) ==
    LET row == nmf.components_[topic]
        freq_sum == SumSeq(row)
        frequencies == [i \in 1..Len(row) |-> Div(row[i], freq_sum)]
    IN  Zip(tfidf_features, frequencies)

topic_word_frequency(topic) ==
    /\ Fitted
    /\ topic \in 1..Len(nmf.components_)
    /\ ret' = [op |-> "topic_word_frequency", topic |-> topic,
               value |-> WordFrequency(topic)]
    /\ UNCHANGED <<attrs, cfgVars, tfidfVars, nmfVars, last_df, solver_call, out>>

(***************************************************************************)
(* Reporting: print_topic_summary, plot_topic and visualize_topics. What   *)
(* is printed, asked, drawn and saved is kept as a sequence of events.     *)
(***************************************************************************)
NumWordsDefault == 20

\* self.labels[:, topic].sum()
NumReviews(topic) == Cardinality({d \in 1..Len(labels) : labels[d][topic]})

\* print_topic_summary(df, topic_num): the four prints; the test of
\* num_reviews comes after them and returns None either way
PrintTopicSummary(topic, p) ==
    <<[step |-> "print summary", topic |-> topic, value |-> topic],
      [step |-> "print number of reviews", topic |-> topic, value |-> NumReviews(topic)],
      [step |-> "print top header", topic |-> topic, value |-> NumWordsDefault],
      [step |-> "print top words", topic |-> topic,
       value |-> Take(tfidf_features, TopIdx(p, NumWordsDefault))]>>

ImagePath(topic) ==
    <<"images", IF pro_or_con = "pro" THEN "positive" ELSE "negative", "topic_", topic, ".png">>

\* plot_topic(topic_idx): the caption is asked for, the word cloud is built
\* from the frequencies, the figure is titled, saved and shown
PlotTopic(topic, title) ==
    <<[step |-> "raw_input", topic |-> topic, value |-> title],
      [step |-> "fit_words", topic |-> topic, value |-> WordFrequency(topic)],
      [step |-> "set_title", topic |-> topic, value |-> <<topic, title, NumReviews(topic)>>],
      [step |-> "savefig", topic |-> topic, value |-> ImagePath(topic)],
      [step |-> "show", topic |-> topic, value |-> topic]>>

\* the body of the loop of visualize_topics, for topics from..num_topics
RECURSIVE VisualizeFrom(_, _, _)
VisualizeFrom(topic, ps, titles) ==
    IF topic > num_topics THEN <<>>
    ELSE PrintTopicSummary(topic, ps[topic])
         \o PlotTopic(topic, titles[topic])
         \o <<[step |-> "print blank", topic |-> topic, value |-> topic]>>
         \o VisualizeFrom(topic + 1, ps, titles)

\* visualize_topics(df): ps[t] is the order argsort gives for topic t,
\* titles[t] the caption typed for it
visualize_topics(df, ps, titles) ==
    /\ Fitted
    /\ Len(ps) = num_topics
    /\ Len(titles) = num_topics
    /\ \A t \in 1..num_topics :
          /\ ps[t] \in ArgSorts(nmf.components_[t])
          /\ Range(ps[t]) \subseteq DOMAIN tfidf_features
    /\ out' = VisualizeFrom(1, ps, titles)
    /\ UNCHANGED <<attrs, cfgVars, tfidfVars, nmfVars, last_df, solver_call, ret>>

(***************************************************************************)
(* The object's life: constructed with any configuration, then fitted and  *)
(* refitted on any tables. The factors' entries play no part here, so the  *)
(* libraries' results are drawn with every entry 1.                        *)
(***************************************************************************)
DocTables(maxDocs) == {[i \in 1..n |-> i] : n \in 1..maxDocs}

VectorizerResults(df, maxVocab, values) ==
    UNION {{[raised |-> FALSE, features |-> SubSeq(Terms, 1, v), matrix |-> m] :
                m \in Matrices(Len(df), v, values)} : v \in 1..maxVocab}

SolverResults(rows, k, cols, wValues, hValues) ==
    {[raised |-> FALSE, W |-> w, H |-> h] :
        w \in Matrices(rows, k, wValues), h \in Matrices(k, cols, hValues)}

Init ==
    \E poc \in {"pro", "con"}, k \in 0..(MaxTopics + 1),
       mf \in {PyInt(1), PyInt(MaxVocab)}, mdf \in {PyFloat(95, 100), PyFloat(50, 100)} :
        Construct(poc, k, mf, mdf, PyInt(1))

FitTfidf ==
    \E df \in DocTables(MaxDocs) :
        \E vec \in {VectorizerRaised} \cup VectorizerResults(df, MaxVocab, {1}) :
            fit_tfidf(df, vec)

FitNmf ==
    \E df \in DocTables(MaxDocs) :
        \E vec \in {VectorizerRaised} \cup VectorizerResults(df, MaxVocab, {1}) :
            \E sol \in {SolverRaised}
                        \cup UNION {SolverResults(rows, num_topics, cols, {1}, {1}) :
                                       rows \in 1..MaxDocs, cols \in 1..MaxVocab} :
                fit_nmf(df, vec, sol)

Next == FitTfidf \/ FitNmf

Spec == Init /\ [][Next]_vars

(***************************************************************************)
(* Claims about the object's life.                                         *)
(***************************************************************************)
\* C6: an invalid topic count (k <= 0, or k above the vocabulary size or the
\* document count) is rejected by the pipeline before the solver is invoked,
\* and no Document-Topic matrix, proportions or labels are produced for it.
C6_InvalidTopicCountRejected ==
    /\ solver_call.invoked =>
          /\ solver_call.n_components >= 1
          /\ solver_call.n_components <= solver_call.rows
          /\ solver_call.n_components <= solver_call.cols
    /\ Fitted =>
          /\ num_topics >= 1
          /\ num_topics <= NumRows(W_matrix)
          /\ num_topics <= NumCols(nmf.components_)

\* C8: the document-frequency bound handed to the vectorizer is the configured
\* tfidf_max_df, and the vocabulary cap is the configured tfidf_max_features.
C8_MaxDfIndependent ==
    "tfidf" \in attrs =>
        /\ tfidf.max_df = tfidf_max_df
        /\ tfidf.max_features = tfidf_max_features

\* the Term-Document matrix, the vocabulary and the reverse lookup describe df
TfidfDescribes(df) ==
    /\ IsMatrix(tfidf_matrix, Len(df), Len(tfidf_features))
    /\ DOMAIN tfidf_reverse_lookup = Range(tfidf_features)
    /\ \A i \in 1..Len(tfidf_features) : tfidf_reverse_lookup[tfidf_features[i]] = i

\* the factorization, W_matrix, W_pct and labels describe rows documents and
\* cols terms
NmfDescribes(rows, cols) ==
    /\ IsMatrix(W_matrix, rows, num_topics)
    /\ IsMatrix(W_pct, rows, num_topics)
    /\ IsMatrix(labels, rows, num_topics)
    /\ IsMatrix(nmf.components_, num_topics, cols)

\* C10 as stated: after any sequence of fit_nmf and fit_tfidf calls, all
\* derived state describes the table most recently supplied.
C10_AllDescribeLastTable ==
    Fitted =>
        /\ TfidfDescribes(last_df)
        /\ NmfDescribes(Len(last_df), Len(tfidf_features))

\* C10, amended: a step that changes the Term-Document matrix or the
\* vocabulary leaves them describing the table just supplied; a step that
\* changes the factorization, W_matrix, W_pct or labels leaves all derived
\* state describing the table just supplied; and at all times W_matrix,
\* W_pct and labels have one shape, num_topics columns wide, with as many
\* Topic-Term rows (a fit_tfidf alone, or a fit whose library call raises,
\* leaves the factorization's state as it was).
C10_RefitRecomputes ==
    [][/\ <<tfidf_matrix, tfidf_features, tfidf_reverse_lookup>>'
            # <<tfidf_matrix, tfidf_features, tfidf_reverse_lookup>>
            => TfidfDescribes(last_df)'
       /\ nmfVars' # nmfVars
            => (TfidfDescribes(last_df) /\ NmfDescribes(Len(last_df), Len(tfidf_features)))'
       /\ Fitted' => NmfDescribes(NumRows(W_matrix), NumCols(nmf.components_))'
      ]_vars

\* reached: a fitted object whose Term-Document matrix was since refitted on
\* a table of another size
C10_Witness ==
    /\ Fitted
    /\ TfidfDescribes(last_df)
    /\ NumRows(W_matrix) # Len(last_df)

(***************************************************************************)
(* Labeling: an object constructed with a topic count k is fitted once on  *)
(* the smallest table k is feasible for (k documents, k terms), and        *)
(* documents' attributions are then asked for. The solver returns any      *)
(* weights for the first document and a row of 0s or of 1s for each other  *)
(* document (rows are labeled independently of each other); the Topic-Term *)
(* weights are 1: they play no part in the labels.                         *)
(***************************************************************************)
DefaultMaxFeatures == 10000
DefaultMinDf == 1000

InitLabel ==
    \E poc \in {"pro", "con"}, k \in 1..LabelTopics :
        Construct(poc, k, PyInt(DefaultMaxFeatures), PyFloat(95, 100), PyInt(DefaultMinDf))

LabelWeights(rows, k) ==
    {[d \in 1..rows |-> IF d = 1 THEN first ELSE [t \in 1..k |-> rest[d]]] :
        first \in [1..k -> 0..MaxWeight], rest \in [2..rows -> {0, 1}]}

FitLabel ==
    /\ ~Fitted
    /\ LET df == [i \in 1..num_topics |-> i]
           vec == [raised |-> FALSE, features |-> SubSeq(Terms, 1, num_topics),
                   matrix |-> Fill(num_topics, num_topics, 1)]
       IN  \E w \in LabelWeights(num_topics, num_topics) :
               fit_nmf(df, vec, [raised |-> FALSE, W |-> w,
                                 H |-> Fill(num_topics, num_topics, 1)])

Attribution ==
    \E d \in 1..Len(labels) :
        \E p \in Permutations(Len(Where(labels[d]))) :
            topic_attribution_by_document(d, p)

NextLabel == FitLabel \/ Attribution

SpecLabel == InitLabel /\ [][NextLabel]_vars

\* C1: after fit_nmf, a document whose topic weights sum to zero has the
\* proportion 0 (not NaN) for every topic, and is a member of no topic.
C1_ZeroRowIsZero ==
    Fitted =>
        \A d \in 1..Len(W_matrix) :
            SumSeq(W_matrix[d]) = 0 =>
                \A t \in 1..Len(W_matrix[d]) :
                    W_pct[d][t] = Div(0, 1) /\ ~labels[d][t]

\* C2: after fit_nmf, labels[d, t] is true if and only if the proportion of
\* document d for topic t, its weight over its row sum, is at least 0.20
\* (20 hundredths): never for a row whose sum is zero.
C2_LabelIffAtLeastThreshold ==
    Fitted =>
        \A d \in 1..Len(W_matrix) :
            \A t \in 1..Len(W_matrix[d]) :
                LET total == SumSeq(W_matrix[d])
                IN  /\ total > 0 => W_pct[d][t].num * total = W_matrix[d][t] * W_pct[d][t].den
                    /\ labels[d][t] <=> (total > 0 /\ 100 * W_matrix[d][t] >= 20 * total)

\* reached: a document labeled a member of a topic at exactly 20 percent of
\* its total weight
C2_Witness ==
    /\ Fitted
    /\ \E d \in 1..Len(W_matrix) :
          \E t \in 1..Len(W_matrix[d]) :
              /\ W_matrix[d][t] > 0
              /\ 5 * W_matrix[d][t] = SumSeq(W_matrix[d])
              /\ labels[d][t]

\* C9: topic_attribution_by_document(d) returns exactly one (topic,
\* proportion) pair for each topic d is labeled a member of and none for any
\* other topic, each pair carrying W_pct[d, topic], in descending order of
\* proportion; a document that is a member of no topic yields no pair.
C9_AttributionIsLabeledTopicsDescending ==
    ret.op = "topic_attribution_by_document" =>
        LET d == ret.document_idx
            v == ret.value
        IN  /\ \A t \in 1..num_topics :
                  Cardinality({i \in 1..Len(v) : v[i].idx = t}) = IF labels[d][t] THEN 1 ELSE 0
            /\ \A i \in 1..Len(v) :
                  /\ v[i].idx \in 1..num_topics
                  /\ v[i].pct = W_pct[d][v[i].idx]
            /\ \A i, j \in 1..Len(v) : i < j => GE(v[i].pct, v[j].pct)
            /\ (\A t \in 1..num_topics : ~labels[d][t]) => v = <<>>

\* reached: an attribution of two topics with different proportions
C9_Witness ==
    /\ ret.op = "topic_attribution_by_document"
    /\ Len(ret.value) >= 2
    /\ GT(ret.value[1].pct, ret.value[2].pct)

(***************************************************************************)
(* Topics: an object is fitted once on a table of TopicVocab documents and *)
(* terms, and the topics' top words and word frequencies are then asked    *)
(* for. The solver returns any Topic-Term weights for the first topic and  *)
(* a row of 0s or of 1s for each other topic (rows are ranked and          *)
(* normalized independently of each other); every Document-Topic weight is *)
(* 1.                                                                      *)
(***************************************************************************)
TopicWeights(k, cols) ==
    {[t \in 1..k |-> IF t = 1 THEN first ELSE [c \in 1..cols |-> rest[t]]] :
        first \in [1..cols -> 0..MaxTermWeight], rest \in [2..k -> {0, 1}]}

InitTopic ==
    \E k \in 1..2 :
        Construct("pro", k, PyInt(DefaultMaxFeatures), PyFloat(95, 100), PyInt(DefaultMinDf))

FitTopic ==
    /\ ~Fitted
    /\ LET df == [i \in 1..TopicVocab |-> i]
           vec == [raised |-> FALSE, features |-> SubSeq(Terms, 1, TopicVocab),
                   matrix |-> Fill(TopicVocab, TopicVocab, 1)]
       IN  \E h \in TopicWeights(num_topics, TopicVocab) :
               fit_nmf(df, vec, [raised |-> FALSE, W |-> Fill(TopicVocab, num_topics, 1),
                                 H |-> h])

TopWords ==
    \E n \in 0..MaxTopWords, topic \in 1..num_topics :
        \E p \in Permutations(Len(tfidf_features)) :
            top_words_by_topic(n, topic, p)

TopWordsAll ==
    \E n \in 0..MaxTopWords :
        \E ps \in [1..num_topics -> Permutations(Len(tfidf_features))] :
            top_words_all(n, ps)

WordFrequencies ==
    \E topic \in 1..num_topics : topic_word_frequency(topic)

NextTopic == FitTopic \/ TopWords \/ TopWordsAll \/ WordFrequencies

SpecTopic == InitTopic /\ [][NextTopic]_vars

\* the weight of a returned term in row topic of the Topic-Term matrix
TermWeight(topic, term) == nmf.components_[topic][tfidf_reverse_lookup[term]]

\* C3: for every count n >= 0, n = 0 included, top_words_by_topic(n, t)
\* returns exactly min(n, vocabulary size) terms, in descending order of
\* their weight in row t of the Topic-Term matrix.
C3_TopWordsCountAndOrder ==
    ret.op = "top_words_by_topic" =>
        /\ Len(ret.value) = Min(ret.n, Len(tfidf_features))
        /\ \A i, j \in 1..Len(ret.value) :
              i < j => TermWeight(ret.topic, ret.value[i]) >= TermWeight(ret.topic, ret.value[j])

\* C4: among terms of equal weight in the topic's row, the one with the
\* smaller vocabulary index is selected first and appears earlier.
C4_TiesByVocabularyOrder ==
    ret.op = "top_words_by_topic" =>
        LET v == ret.value
            pos(term) == tfidf_reverse_lookup[term]
        IN  /\ \A i, j \in 1..Len(v) :
                  (i < j /\ TermWeight(ret.topic, v[i]) = TermWeight(ret.topic, v[j]))
                      => pos(v[i]) < pos(v[j])
            /\ \A i \in 1..Len(v) :
                  \A c \in 1..Len(tfidf_features) :
                      (nmf.components_[ret.topic][c] = TermWeight(ret.topic, v[i])
                       /\ c < pos(v[i]))
                          => tfidf_features[c] \in Range(v)

\* C7: topic_word_frequency(t) returns one (term, frequency) pair per
\* vocabulary term, in vocabulary order, each frequency the term's weight
\* over the row total, and the frequencies sum to 1, also for a topic whose
\* row is entirely zero.
C7_FrequenciesSumToOne ==
    ret.op = "topic_word_frequency" =>
        LET v == ret.value
        IN  /\ Len(v) = Len(tfidf_features)
            /\ \A i \in 1..Len(v) : v[i][1] = tfidf_features[i]
            /\ SumFrac([i \in 1..Len(v) |-> v[i][2]]) = Div(1, 1)

(***************************************************************************)
(* Reporting: an object is fitted once on the smallest table its topic     *)
(* count is feasible for, the solver returning Document-Topic weights 0 or *)
(* 1 and positive Topic-Term weights, and its topics are then visualized.  *)
(***************************************************************************)
InitReport ==
    \E poc \in {"pro", "con"}, k \in 1..2 :
        Construct(poc, k, PyInt(DefaultMaxFeatures), PyFloat(95, 100), PyInt(DefaultMinDf))

FitReport ==
    /\ ~Fitted
    /\ LET df == [i \in 1..num_topics |-> i]
           vec == [raised |-> FALSE, features |-> SubSeq(Terms, 1, num_topics),
                   matrix |-> Fill(num_topics, num_topics, 1)]
       IN  \E w \in Matrices(num_topics, num_topics, {0, 1}),
              h \in Matrices(num_topics, num_topics, {1, 2}) :
               fit_nmf(df, vec, [raised |-> FALSE, W |-> w, H |-> h])

Visualize ==
    \E ps \in [1..num_topics -> Permutations(Len(tfidf_features))] :
        visualize_topics(last_df, ps, [t \in 1..num_topics |-> "caption"])

NextReport == FitReport \/ Visualize

SpecReport == InitReport /\ [][NextReport]_vars

\* C5: in visualize_topics, for a topic with zero member documents the
\* summary states the zero count and reporting stops there: no top-terms
\* output follows and no render step is performed for that topic.
C5_NoRenderForEmptyTopic ==
    \A i \in 1..Len(out) :
        NumReviews(out[i].topic) = 0 =>
            out[i].step \in {"print summary", "print number of reviews", "print blank"}

====
